---- MODULE Spec2Model ----
(***************************************************************************)
(* A model of dec754's d32 (src/src/lib.rs): a decimal32 value in the      *)
(* binary-integer-decimal encoding, its field decoders, its classification *)
(* predicates, quantum, negate and the totalOrder predicate.               *)
(*                                                                         *)
(* A u32 is kept as two 16-bit halves and a u64 as eight little-endian     *)
(* bytes, so that every bit operation, every wrapping subtraction and      *)
(* every 64-bit product is computed at the width the code computes it.     *)
(* Rust's integer arithmetic panics on overflow when the build has         *)
(* overflow checks (debug profile) and wraps when it has not (release      *)
(* profile): the variable overflow_checks is the build the library was     *)
(* compiled with.                                                          *)
(***************************************************************************)
EXTENDS Integers, Sequences, FiniteSets, TLC

VARIABLES
    overflow_checks,  \* TRUE: arithmetic overflow panics; FALSE: it wraps
    va, vb, vc,       \* the d32 operands the caller holds
    orders,           \* total_order calls made: [a, b, r]
    quanta,           \* quantum calls made: [a, r]
    classes,          \* class calls made: [a, r]
    preds             \* is_zero, is_subnormal, ... calls made: [f, a, r]

vars == <<overflow_checks, va, vb, vc, orders, quanta, classes, preds>>

(***************************************************************************)
(* Machine integers                                                        *)
(***************************************************************************)

\* The u32 whose upper half is hi and lower half is lo: 0xHHHHLLLL.
U32(hi, lo) == [hi |-> hi, lo |-> lo]

\* The outcome of an evaluation: a value, or a panic.
Ok(v) == [panic |-> FALSE, v |-> v]
Panic == [panic |-> TRUE, v |-> FALSE]

\* F of the value of e, with e evaluated once: a local binding
\* `let r = e; F(r)`.
Bind(e, F(_)) == CHOOSE out \in {F(r) : r \in {e}} : TRUE
Bind2(e1, e2, F(_, _)) ==
    CHOOSE out \in {F(r1, r2) : r1 \in {e1}, r2 \in {e2}} : TRUE

RECURSIVE AndBits(_, _, _)
AndBits(a, b, n) ==
    IF n = 0 THEN 0
    ELSE (a % 2) * (b % 2) + 2 * AndBits(a \div 2, b \div 2, n - 1)

RECURSIVE OrBits(_, _, _)
OrBits(a, b, n) ==
    IF n = 0 THEN 0
    ELSE (IF a % 2 = 1 \/ b % 2 = 1 THEN 1 ELSE 0)
         + 2 * OrBits(a \div 2, b \div 2, n - 1)

RECURSIVE XorBits(_, _, _)
XorBits(a, b, n) ==
    IF n = 0 THEN 0
    ELSE ((a + b) % 2) + 2 * XorBits(a \div 2, b \div 2, n - 1)

\* The bitwise operations on two hexadecimal digits, tabulated.
AndDigit == [i \in 0..15 |-> [j \in 0..15 |-> AndBits(i, j, 4)]]
OrDigit == [i \in 0..15 |-> [j \in 0..15 |-> OrBits(i, j, 4)]]
XorDigit == [i \in 0..15 |-> [j \in 0..15 |-> XorBits(i, j, 4)]]

\* A bitwise operation on 16 bits, digit by digit.
Bitwise16(T, a, b) ==
    T[a % 16][b % 16]
    + 16 * T[(a \div 16) % 16][(b \div 16) % 16]
    + 256 * T[(a \div 256) % 16][(b \div 256) % 16]
    + 4096 * T[a \div 4096][b \div 4096]

\* a & b on 16 bits: nothing under an empty mask, a under a full one
And16(a, b) ==
    IF b = 0 THEN 0 ELSE IF b = 65535 THEN a ELSE Bitwise16(AndDigit, a, b)

\* a & b, a | b, a ^ b on u32
BitAnd(a, b) == U32(And16(a.hi, b.hi), And16(a.lo, b.lo))
BitOr(a, b) ==
    U32(Bitwise16(OrDigit, a.hi, b.hi), Bitwise16(OrDigit, a.lo, b.lo))
BitXor(a, b) ==
    U32(Bitwise16(XorDigit, a.hi, b.hi), Bitwise16(XorDigit, a.lo, b.lo))

\* a >> n on u32, 0 <= n < 32
Shr(a, n) ==
    IF n >= 16 THEN U32(0, a.hi \div (2 ^ (n - 16)))
    ELSE U32(a.hi \div (2 ^ n),
             (a.hi % (2 ^ n)) * (2 ^ (16 - n)) + a.lo \div (2 ^ n))

\* comparisons of u32
Lt32(a, b) == a.hi < b.hi \/ (a.hi = b.hi /\ a.lo < b.lo)
Le32(a, b) == ~Lt32(b, a)
Gt32(a, b) == Lt32(b, a)
Ge32(a, b) == ~Lt32(a, b)

\* a - b on u32: below zero it panics with overflow checks and wraps
\* modulo 2^32 without.
Sub32(a, b) ==
    LET lo == a.lo - b.lo
        borrow == IF lo < 0 THEN 1 ELSE 0
        hi == a.hi - b.hi - borrow
    IN  IF hi < 0
        THEN IF overflow_checks THEN Panic
             ELSE Ok(U32(hi + 65536, lo + 65536 * borrow))
        ELSE Ok(U32(hi, lo + 65536 * borrow))

\* `v as u64`: the eight little-endian bytes of a u32.
AsU64(a) ==
    <<a.lo % 256, a.lo \div 256, a.hi % 256, a.hi \div 256, 0, 0, 0, 0>>

\* A u64 literal below 2^31.
Lit64(n) ==
    <<n % 256, (n \div 256) % 256, (n \div 65536) % 256, n \div 16777216,
      0, 0, 0, 0>>

RECURSIVE LtBytes(_, _, _)
LtBytes(a, b, i) ==
    IF i = 0 THEN FALSE
    ELSE IF a[i] # b[i] THEN a[i] < b[i]
    ELSE LtBytes(a, b, i - 1)

\* comparisons of u64
Lt64(a, b) == Bind2(a, b, LAMBDA l, r : LtBytes(l, r, 8))
Le64(a, b) == ~Lt64(b, a)
Gt64(a, b) == Lt64(b, a)
Ge64(a, b) == ~Lt64(a, b)

\* The number of bytes of a u64 up to its highest non-zero one.
Width(a) ==
    IF a[8] # 0 THEN 8 ELSE IF a[7] # 0 THEN 7 ELSE IF a[6] # 0 THEN 6
    ELSE IF a[5] # 0 THEN 5 ELSE IF a[4] # 0 THEN 4 ELSE IF a[3] # 0 THEN 3
    ELSE IF a[2] # 0 THEN 2 ELSE IF a[1] # 0 THEN 1 ELSE 0

\* The sum of a[i] * b[k - i] over the byte positions i..last of column k.
RECURSIVE Column(_, _, _, _, _)
Column(a, b, k, i, last) ==
    IF i > last THEN 0
    ELSE a[i + 1] * b[k - i + 1] + Column(a, b, k, i + 1, last)

\* The sixteen bytes of the full product a * b, a of wa and b of wb
\* significant bytes, from byte k on.
RECURSIVE Product(_, _, _, _, _, _)
Product(a, b, wa, wb, k, carry) ==
    IF k = 16 THEN <<>>
    ELSE LET first == IF k - (wb - 1) > 0 THEN k - (wb - 1) ELSE 0
             last == IF k < wa - 1 THEN k ELSE wa - 1
         IN  Bind2(Column(a, b, k, first, last) + carry, k + 1,
                   LAMBDA t, k1 :
                       <<t % 256>> \o Product(a, b, wa, wb, k1, t \div 256))

\* The low eight bytes of a sixteen-byte product: at 2^64 and above the
\* multiplication panics with overflow checks and wraps modulo 2^64 without.
Low64(p) ==
    IF (\E i \in 9..16 : p[i] # 0) /\ overflow_checks THEN Panic
    ELSE Ok(SubSeq(p, 1, 8))

\* a * b on u64
Mul64(a, b) ==
    Bind2(a, b, LAMBDA l, r :
        Bind2(Width(l), Width(r), LAMBDA wl, wr :
            Bind(Product(l, r, wl, wr, 0, 0), LAMBDA p : Low64(p))))

\* base.pow(n) on u64 for 0 <= n < 64, by repeated multiplication.
RECURSIVE PowNat(_, _)
PowNat(base, n) ==
    IF n = 0 THEN Ok(Lit64(1))
    ELSE Bind(PowNat(base, n - 1),
              LAMBDA r : IF r.panic THEN Panic ELSE Mul64(r.v, base))

\* 10u64.pow(exp), exp a u32.  2^64 divides 10^64, so from 64 on the
\* wrapped power is 0.
Pow10(exp) ==
    IF Ge32(exp, U32(0, 64))
    THEN IF overflow_checks THEN Panic ELSE Ok(Lit64(0))
    ELSE PowNat(Lit64(10), exp.lo)

\* s * 10u64.pow(d), where the exponent difference d may have panicked.
Scale(s, d) ==
    Bind(d, LAMBDA e :
        IF e.panic THEN Panic
        ELSE Bind(Pow10(e.v),
                  LAMBDA p : IF p.panic THEN Panic ELSE Mul64(s, p.v)))

\* Rust's short-circuit p || q and p && q over outcomes.
OrElse(p, q) == Bind(p, LAMBDA l : IF l.panic \/ l.v THEN l ELSE q)
AndAlso(p, q) == Bind(p, LAMBDA l : IF l.panic \/ ~l.v THEN l ELSE q)

\* p, then F of its value: the rest of an expression after an operand that
\* may have panicked
Then(p, F(_)) == Bind(p, LAMBDA l : IF l.panic THEN Panic ELSE Ok(F(l.v)))

(***************************************************************************)
(* d32: predicates on the bit pattern                                      *)
(***************************************************************************)

is_sign_minus(self) == BitAnd(self, U32(\h8000, \h0000)) = U32(\h8000, \h0000)

is_nan(self) == BitAnd(self, U32(\h7c00, \h0000)) = U32(\h7c00, \h0000)

is_signaling(self) == BitAnd(self, U32(\h7e00, \h0000)) = U32(\h7e00, \h0000)

is_infinite(self) ==
    ~is_nan(self) /\ BitAnd(self, U32(\h7800, \h0000)) = U32(\h7800, \h0000)

is_finite(self) == ~(is_infinite(self) \/ is_nan(self))

is_quiet(self) == is_nan(self) /\ ~is_signaling(self)

(***************************************************************************)
(* d32: field decoders                                                     *)
(***************************************************************************)

exponent_form_one(self) ==
    is_finite(self) /\ BitAnd(self, U32(\h6000, \h0000)) # U32(\h6000, \h0000)

significand(self) ==
    IF exponent_form_one(self)
    THEN AsU64(BitAnd(self, U32(\h007f, \hffff)))
    ELSE AsU64(BitOr(BitAnd(self, U32(\h001f, \hffff)), U32(\h0080, \h0000)))

exponent(self) ==
    IF ~is_finite(self) THEN U32(0, 0)
    ELSE IF exponent_form_one(self)
    THEN Shr(BitAnd(self, U32(\h7f80, \h0000)), 23)
    ELSE Shr(BitAnd(self, U32(\h1fe0, \h0000)), 21)

(***************************************************************************)
(* d32: classification                                                     *)
(***************************************************************************)

is_canonical(self) ==
    \/ is_nan(self) /\ BitAnd(self, U32(\h7df0, \h0000)) = U32(\h7c00, \h0000)
    \/ is_infinite(self)
       /\ BitAnd(self, U32(\h7fff, \hffff)) = U32(\h7800, \h0000)
    \/ is_finite(self) /\ Le64(significand(self), Lit64(9999999))

\* is_zero without the non-canonical case: only a zero significand counts.
is_zero_of_significand_only(self) ==
    is_finite(self) /\ significand(self) = Lit64(0)

is_zero(self) ==
    is_finite(self)
    /\ (significand(self) = Lit64(0) \/ ~is_canonical(self))

is_subnormal(self) ==
    AndAlso(Ok(is_finite(self) /\ ~is_zero(self)
               /\ Lt32(exponent(self), U32(0, 6))),
            Then(Scale(significand(self), Ok(exponent(self))),
                 LAMBDA m : Lt64(m, Lit64(1000000))))

is_normal(self) ==
    AndAlso(Ok(is_finite(self) /\ ~is_zero(self)),
            Then(is_subnormal(self), LAMBDA s : ~s))

\* if c { t } else { e }, where the condition c may have panicked
IfElse(c, t, e) ==
    Bind(c, LAMBDA b : IF b.panic THEN Panic ELSE IF b.v THEN Ok(t) ELSE e)

class(self) ==
    IF is_signaling(self) THEN Ok("SignalingNaN")
    ELSE IF is_quiet(self) THEN Ok("QuietNaN")
    ELSE IF is_sign_minus(self)
    THEN IF is_infinite(self) THEN Ok("NegativeInf")
         ELSE IfElse(is_normal(self), "NegativeNormal",
              IfElse(is_subnormal(self), "NegativeSubnormal",
              Ok("NegativeZero")))
    ELSE IF is_infinite(self) THEN Ok("PositiveInf")
    ELSE IfElse(is_normal(self), "PositiveNormal",
         IfElse(is_subnormal(self), "PositiveSubnormal",
         Ok("PositiveZero")))

(***************************************************************************)
(* d32: quantum and sign operations                                        *)
(***************************************************************************)

quantum(self) ==
    IF is_signaling(self) THEN BitAnd(self, U32(\h7e07, \hffff))
    ELSE IF is_nan(self) THEN BitAnd(self, U32(\h7c07, \hffff))
    ELSE IF is_infinite(self) THEN U32(\h7800, \h0000)
    ELSE IF exponent_form_one(self) THEN BitAnd(self, U32(\h7f80, \h0001))
    ELSE BitAnd(self, U32(\h7fe0, \h0001))

negate(self) == BitXor(self, U32(\h8000, \h0000))

(***************************************************************************)
(* d32: total_order                                                        *)
(***************************************************************************)

\* The same-class NaN arm without its payload test, as an earlier revision
\* of the library had it.
SameNaNArmWithoutPayload(self, y) ==
    Ok(is_sign_minus(self) /\ ~is_sign_minus(y))

\* (QuietNaN, QuietNaN) and (SignalingNaN, SignalingNaN)
SameNaNArm(self, y) ==
    Ok((is_sign_minus(self) /\ ~is_sign_minus(y))
       \/ significand(self) = significand(y))

\* The (QuietNaN, SignalingNaN) arm with the sign test inverted.
QuietSignalingArmInverted(self, y) == Ok(~is_sign_minus(self))

\* (QuietNaN, SignalingNaN)
QuietSignalingArm(self, y) == Ok(is_sign_minus(self))

\* (SignalingNaN, QuietNaN)
SignalingQuietArm(self, y) == Ok(~is_sign_minus(y))

\* the arms with a NaN on either side
NaNArms(cs, cy, self, y) ==
    IF cs = "QuietNaN" /\ cy = "QuietNaN" THEN SameNaNArm(self, y)
    ELSE IF cs = "SignalingNaN" /\ cy = "SignalingNaN" THEN SameNaNArm(self, y)
    ELSE IF cs = "QuietNaN" /\ cy = "SignalingNaN"
    THEN QuietSignalingArm(self, y)
    ELSE IF cs = "SignalingNaN" /\ cy = "QuietNaN"
    THEN SignalingQuietArm(self, y)
    ELSE IF cs = "QuietNaN" THEN Ok(is_sign_minus(self))
    ELSE IF cs = "SignalingNaN" THEN Ok(is_sign_minus(self))
    ELSE Ok(~is_sign_minus(y))

\* The infinity arms with the two PositiveInf results exchanged.
InfArmsExchanged(cs, cy) ==
    IF cs = "NegativeInf" /\ cy = "NegativeInf" THEN Ok(TRUE)
    ELSE IF cs = "NegativeInf" THEN Ok(TRUE)
    ELSE IF cy = "NegativeInf" THEN Ok(FALSE)
    ELSE IF cs = "PositiveInf" /\ cy = "PositiveInf" THEN Ok(TRUE)
    ELSE IF cs = "PositiveInf" THEN Ok(TRUE)
    ELSE Ok(FALSE)

\* the arms with an infinity on either side and no NaN
InfArms(cs, cy) ==
    IF cs = "NegativeInf" /\ cy = "NegativeInf" THEN Ok(TRUE)
    ELSE IF cs = "NegativeInf" THEN Ok(TRUE)
    ELSE IF cy = "NegativeInf" THEN Ok(FALSE)
    ELSE IF cs = "PositiveInf" /\ cy = "PositiveInf" THEN Ok(TRUE)
    ELSE IF cs = "PositiveInf" THEN Ok(FALSE)
    ELSE Ok(TRUE)

\* (NegativeNormal, NegativeNormal)
NegativeNormalArm(self, y) ==
    LET ss == significand(self)
        sy == significand(y)
        es == exponent(self)
        ey == exponent(y)
    IN  OrElse(Ok(Gt64(ss, sy) /\ Ge32(es, ey)),
        OrElse(Then(Sub32(es, ey), LAMBDA d : Gt32(d, U32(0, 6))),
        OrElse(AndAlso(Ok(Ge32(es, ey)),
                       Then(Scale(ss, Sub32(es, ey)),
                            LAMBDA m : Ge64(m, sy))),
               AndAlso(Ok(Le32(es, ey)),
                       Then(Scale(sy, Sub32(ey, es)),
                            LAMBDA m : Gt64(ss, m))))))

\* (NegativeSubnormal, NegativeSubnormal)
NegativeSubnormalArm(self, y) ==
    LET ss == significand(self)
        sy == significand(y)
        es == exponent(self)
        ey == exponent(y)
    IN  OrElse(Ok(Gt64(ss, sy) /\ Ge32(es, ey)),
        OrElse(Then(Sub32(es, ey), LAMBDA d : Gt32(d, U32(0, 6))),
        OrElse(AndAlso(Ok(Ge32(es, ey)),
                       Then(Scale(ss, Sub32(es, ey)),
                            LAMBDA m : Ge64(m, sy))),
               AndAlso(Ok(Lt32(es, ey)),
                       Then(Scale(sy, Sub32(ey, es)),
                            LAMBDA m : Gt64(ss, m))))))

\* The (NegativeZero, NegativeZero) arm comparing as the positive arm does.
NegativeZeroArmAsPositive(self, y) == Ok(Le32(exponent(self), exponent(y)))

\* (NegativeZero, NegativeZero)
NegativeZeroArm(self, y) == Ok(Ge32(exponent(self), exponent(y)))

\* (PositiveZero, PositiveZero)
PositiveZeroArm(self, y) == Ok(Le32(exponent(self), exponent(y)))

\* (PositiveSubnormal, PositiveSubnormal)
PositiveSubnormalArm(self, y) ==
    LET ss == significand(self)
        sy == significand(y)
        es == exponent(self)
        ey == exponent(y)
    IN  OrElse(Ok(Lt64(ss, sy) /\ Le32(es, ey)),
        OrElse(Then(Sub32(ey, es), LAMBDA d : Gt32(d, U32(0, 6))),
        OrElse(AndAlso(Ok(Le32(es, ey)),
                       Then(Scale(sy, Sub32(ey, es)),
                            LAMBDA m : Le64(ss, m))),
               AndAlso(Ok(Gt32(es, ey)),
                       Then(Scale(ss, Sub32(es, ey)),
                            LAMBDA m : Lt64(m, sy))))))

\* (PositiveNormal, PositiveNormal)
PositiveNormalArm(self, y) ==
    LET ss == significand(self)
        sy == significand(y)
        es == exponent(self)
        ey == exponent(y)
    IN  OrElse(Ok(Lt64(ss, sy) /\ Le32(es, ey)),
        OrElse(Then(Sub32(ey, es), LAMBDA d : Gt32(d, U32(0, 6))),
        OrElse(AndAlso(Ok(Le32(es, ey)),
                       Then(Scale(sy, Sub32(ey, es)),
                            LAMBDA m : Le64(ss, m))),
               AndAlso(Ok(Gt32(es, ey)),
                       Then(Scale(ss, Sub32(es, ey)),
                            LAMBDA m : Lt64(m, sy))))))

\* the arms with two finite operands
FiniteArms(cs, cy, self, y) ==
    IF cs = "NegativeNormal" /\ cy = "NegativeNormal"
    THEN NegativeNormalArm(self, y)
    ELSE IF cs = "NegativeNormal" THEN Ok(TRUE)
    ELSE IF cy = "NegativeNormal" THEN Ok(FALSE)
    ELSE IF cs = "NegativeSubnormal" /\ cy = "NegativeSubnormal"
    THEN NegativeSubnormalArm(self, y)
    ELSE IF cs = "NegativeSubnormal" THEN Ok(TRUE)
    ELSE IF cy = "NegativeSubnormal" THEN Ok(FALSE)
    ELSE IF cs = "NegativeZero" /\ cy = "NegativeZero"
    THEN NegativeZeroArm(self, y)
    ELSE IF cs = "NegativeZero" THEN Ok(TRUE)
    ELSE IF cy = "NegativeZero" THEN Ok(FALSE)
    ELSE IF cs = "PositiveZero" /\ cy = "PositiveZero"
    THEN PositiveZeroArm(self, y)
    ELSE IF cs = "PositiveZero" THEN Ok(TRUE)
    ELSE IF cy = "PositiveZero" THEN Ok(FALSE)
    ELSE IF cs = "PositiveSubnormal" /\ cy = "PositiveSubnormal"
    THEN PositiveSubnormalArm(self, y)
    ELSE IF cs = "PositiveSubnormal" THEN Ok(TRUE)
    ELSE IF cy = "PositiveSubnormal" THEN Ok(FALSE)
    ELSE PositiveNormalArm(self, y)

NaNClasses == {"QuietNaN", "SignalingNaN"}
InfClasses == {"NegativeInf", "PositiveInf"}

total_order(self, y) ==
    Bind2(class(self), class(y), LAMBDA cs, cy :
        IF cs.panic \/ cy.panic THEN Panic
        ELSE IF cs.v \in NaNClasses \/ cy.v \in NaNClasses
        THEN NaNArms(cs.v, cy.v, self, y)
        ELSE IF cs.v \in InfClasses \/ cy.v \in InfClasses
        THEN InfArms(cs.v, cy.v)
        ELSE FiniteArms(cs.v, cy.v, self, y))

(***************************************************************************)
(* Operands                                                                *)
(***************************************************************************)

\* Small significands and NaN payloads run from 0 to these.
MaxSig == 2
MaxPayload == 1

\* Form A: sign, exponent field in G0..G7, 23-bit trailing significand.
FormA(sign, e, t) == U32(sign * 32768 + e * 128 + t \div 65536, t % 65536)

\* Form B: sign, 11 prefix, exponent field in G2..G9, 21-bit trailing
\* significand under the implied leading 100.
FormB(sign, e, t) ==
    U32(sign * 32768 + 24576 + e * 32 + t \div 65536, t % 65536)

\* Infinity with trailing bits t; NaN with its signaling bit, a reserved
\* bit of G and a payload.
Inf(sign, t) == U32(sign * 32768 + 30720, t)
NaN(sign, signaling, reserved, payload) ==
    U32(sign * 32768 + 31744 + signaling * 512 + reserved * 32, payload)

\* Finite operands in form A, as <<exponent field, significand>>: zeros,
\* subnormal numbers (exponent field below 6 and fewer than seven digits
\* once scaled), normal numbers at exponent field 0, around the bias and
\* more than six above it, members of one cohort (1 at 102, 10 at 101),
\* the largest significand of the form (2^23 - 1).
FiniteA ==
    {<<0, 0>>, <<101, 0>>}
    \cup {<<0, 1>>, <<0, 10>>, <<1, 1>>}
    \cup {<<0, 1000000>>, <<101, 10>>, <<101, 8388607>>, <<102, 1>>,
          <<108, 1>>}
    \cup {<<101, t>> : t \in 1..MaxSig}

\* Finite operands in form B, as <<exponent field, trailing significand>>:
\* the significands 8388608, 9999999 and 10000000 (the first non-canonical
\* one) once decoded.
FiniteB == {<<101, 0>>, <<101, 1611391>>, <<101, 1611392>>}

Operands ==
    {FormA(s, f[1], f[2]) : s \in 0..1, f \in FiniteA}
    \cup {FormB(s, f[1], f[2]) : s \in 0..1, f \in FiniteB}
    \cup {Inf(0, 0), Inf(1, 0), Inf(0, 1)}
    \cup {NaN(s, g, 0, t) : s \in 0..1, g \in 0..1, t \in 0..MaxPayload}
    \cup {NaN(0, 0, 1, 0)}

\* The operands of three-way comparisons: quiet NaNs, a zero and normal
\* numbers.
Operands3 ==
    {NaN(s, 0, 0, t) : s \in 0..1, t \in 0..MaxPayload}
    \cup {FormA(0, 101, 0), FormA(0, 101, 1), FormA(0, 102, 1),
          FormA(1, 101, 1)}

(***************************************************************************)
(* The caller: it holds operands and calls the library on them             *)
(***************************************************************************)

NoCalls ==
    /\ orders = {}
    /\ quanta = {}
    /\ classes = {}
    /\ preds = {}

\* one operand
Init1 ==
    /\ overflow_checks \in BOOLEAN
    /\ va \in Operands
    /\ vb = va
    /\ vc = va
    /\ NoCalls

\* two operands
Init ==
    /\ overflow_checks \in BOOLEAN
    /\ va \in Operands
    /\ vb \in Operands
    /\ vc = va
    /\ NoCalls

\* three operands
Init3 ==
    /\ overflow_checks \in BOOLEAN
    /\ va \in Operands3
    /\ vb \in Operands3
    /\ vc \in Operands3
    /\ NoCalls

\* a.total_order(&b)
Order(a, b) ==
    /\ orders' = orders \cup {[a |-> a, b |-> b, r |-> total_order(a, b)]}
    /\ UNCHANGED <<overflow_checks, va, vb, vc, quanta, classes, preds>>

\* a.quantum()
Quantum(a) ==
    /\ quanta' = quanta \cup {[a |-> a, r |-> quantum(a)]}
    /\ UNCHANGED <<overflow_checks, va, vb, vc, orders, classes, preds>>

\* a predicate f of a, with outcome r
Pred(f, a, r) ==
    /\ preds' = preds \cup {[f |-> f, a |-> a, r |-> r]}
    /\ UNCHANGED <<overflow_checks, va, vb, vc, orders, quanta, classes>>

OrderAB == Order(va, vb)
OrderBA == Order(vb, va)
OrderBC == Order(vb, vc)
OrderAC == Order(va, vc)
OrderNegated == \E a \in {negate(vb)}, b \in {negate(va)} : Order(a, b)
QuantumA == Quantum(va)
QuantumB == Quantum(vb)
IsZero == Pred("is_zero", va, Ok(is_zero(va)))
IsSubnormal == Pred("is_subnormal", va, is_subnormal(va))
IsNormal == Pred("is_normal", va, is_normal(va))
IsCanonical == Pred("is_canonical", va, Ok(is_canonical(va)))
Class ==
    /\ classes' = classes \cup {[a |-> va, r |-> class(va)]}
    /\ UNCHANGED <<overflow_checks, va, vb, vc, orders, quanta, preds>>

\* total_order on two operands, both ways round
Next == OrderAB \/ OrderBA
Spec == Init /\ [][Next]_vars

\* total_order on two operands and on their negations, swapped
NextNegated == OrderAB \/ OrderNegated
SpecNegated == Init /\ [][NextNegated]_vars

\* total_order along a chain of three operands
Next3 == OrderAB \/ OrderBC \/ OrderAC
Spec3 == Init3 /\ [][Next3]_vars

\* quantum of two operands
NextQuantum == QuantumA \/ QuantumB
SpecQuantum == Init /\ [][NextQuantum]_vars

\* the classification of one operand
NextClass == Class \/ IsZero \/ IsSubnormal \/ IsNormal \/ IsCanonical
SpecClass == Init1 /\ [][NextClass]_vars

(***************************************************************************)
(* Properties                                                              *)
(***************************************************************************)

\* The decoded significand and the raw exponent field as numbers.
SigNat(v) == LET s == significand(v) IN s[1] + 256 * s[2] + 65536 * s[3]
ExpNat(v) == exponent(v).lo

\* The sign bit, read off the upper half.
SignSet(v) == v.hi >= 32768

\* s_a * 10^e_a < s_b * 10^e_b and s_a * 10^e_a = s_b * 10^e_b for
\* significands in 1..9999999, by division so that no product is formed.
NumLess(a, b) ==
    LET sa == SigNat(a)
        sb == SigNat(b)
        ea == ExpNat(a)
        eb == ExpNat(b)
    IN  IF ea >= eb
        THEN ea - eb <= 6 /\ sa <= (sb - 1) \div (10 ^ (ea - eb))
        ELSE eb - ea > 6 \/ sa \div (10 ^ (eb - ea)) < sb

NumEq(a, b) ==
    LET sa == SigNat(a)
        sb == SigNat(b)
        ea == ExpNat(a)
        eb == ExpNat(b)
    IN  IF ea >= eb
        THEN /\ ea - eb <= 6
             /\ sb % (10 ^ (ea - eb)) = 0
             /\ sa = sb \div (10 ^ (ea - eb))
        ELSE /\ eb - ea <= 6
             /\ sa % (10 ^ (eb - ea)) = 0
             /\ sb = sa \div (10 ^ (eb - ea))

\* The place of a non-NaN class in the fixed rank.
RankOf(c) ==
    CASE c = "NegativeInf" -> 1
      [] c = "NegativeNormal" -> 2
      [] c = "NegativeSubnormal" -> 3
      [] c = "NegativeZero" -> 4
      [] c = "PositiveZero" -> 5
      [] c = "PositiveSubnormal" -> 6
      [] c = "PositiveNormal" -> 7
      [] c = "PositiveInf" -> 8

\* A finite pattern whose decoded significand exceeds 9,999,999.
NonCanonicalFinite(v) == is_finite(v) /\ SigNat(v) > 9999999

\* C1: no call of total_order, class or a classification predicate panics,
\* whatever the operands: every call returns a definite value.
NeverPanics ==
    /\ \A c \in orders : ~c.r.panic
    /\ \A c \in classes : ~c.r.panic
    /\ \A c \in preds : ~c.r.panic

\* C2: total_order is reflexive: a call on two identical patterns returns
\* true.
Reflexive == \A c \in orders : c.a = c.b => c.r = Ok(TRUE)

\* a NaN has been compared with itself
ReflexiveWitness ==
    \E c \in orders : c.a = c.b /\ is_nan(c.a) /\ c.r = Ok(TRUE)

\* C3: total_order is total and antisymmetric: of the two calls on
\* patterns that are not bit-identical, one way round and the other,
\* exactly one returns true and the other returns false.
Antisymmetric ==
    \A c, d \in orders :
        (d.a = c.b /\ d.b = c.a /\ c.a # c.b)
        => \/ c.r = Ok(TRUE) /\ d.r = Ok(FALSE)
           \/ c.r = Ok(FALSE) /\ d.r = Ok(TRUE)

\* C4: total_order is transitive: when the calls on (a, b) and on (b, c)
\* return true, the call on (a, c) returns true.
Transitive ==
    \A c, d, e \in orders :
        (d.a = c.b /\ e.a = c.a /\ e.b = d.b
         /\ c.r = Ok(TRUE) /\ d.r = Ok(TRUE))
        => e.r = Ok(TRUE)

\* C5: quantum discards the significand: two finite patterns of the same
\* class and the same exponent field have bit-identical quanta.
QuantumDiscardsSignificand ==
    \A p, q \in quanta :
        (is_finite(p.a) /\ is_finite(q.a) /\ class(p.a) = class(q.a)
         /\ exponent(p.a) = exponent(q.a))
        => p.r = q.r

\* C6: a finite pattern whose decoded significand exceeds 9,999,999 is a
\* zero: is_zero is true of it, is_subnormal and is_normal are false, and
\* its class is NegativeZero with the sign bit set and PositiveZero
\* without; and is_zero is false of every finite pattern whose decoded
\* significand is in 1..9,999,999.
NonCanonicalIsZero ==
    /\ \A c \in preds :
           (NonCanonicalFinite(c.a)
            /\ c.f \in {"is_zero", "is_subnormal", "is_normal"})
           => c.r = Ok(c.f = "is_zero")
    /\ \A c \in classes :
           NonCanonicalFinite(c.a)
           => /\ ~c.r.panic
              /\ c.r.v = IF SignSet(c.a) THEN "NegativeZero"
                         ELSE "PositiveZero"
    /\ \A c \in preds :
           (c.f = "is_zero" /\ is_finite(c.a)
            /\ SigNat(c.a) >= 1 /\ SigNat(c.a) <= 9999999)
           => c.r = Ok(FALSE)

\* a negative non-canonical pattern has been classified and tested for zero
NonCanonicalWitness ==
    \E c \in classes, p \in preds :
        /\ NonCanonicalFinite(c.a) /\ SignSet(c.a)
        /\ c.r = Ok("NegativeZero")
        /\ p.a = c.a /\ p.f = "is_zero" /\ p.r = Ok(TRUE)

\* C7: on two operands of the same sign and class, both normal or both
\* subnormal, total_order returns the exact comparison of s_a * 10^e_a with
\* s_b * 10^e_b: for positive operands true iff a is smaller, or equal with
\* e_a <= e_b; for negative operands true iff a's magnitude is larger, or
\* equal with e_a >= e_b.
ExactComparison ==
    \A c \in orders :
        LET ca == class(c.a).v
            cb == class(c.b).v
        IN  /\ (ca = cb /\ ca \in {"PositiveNormal", "PositiveSubnormal"})
               => c.r = Ok(\/ NumLess(c.a, c.b)
                           \/ NumEq(c.a, c.b) /\ ExpNat(c.a) <= ExpNat(c.b))
            /\ (ca = cb /\ ca \in {"NegativeNormal", "NegativeSubnormal"})
               => c.r = Ok(\/ NumLess(c.b, c.a)
                           \/ NumEq(c.a, c.b) /\ ExpNat(c.a) >= ExpNat(c.b))

\* a signaling NaN on the left and a quiet NaN on the right, or the other
\* way round, of the same sign
SignalingThenQuiet(c) ==
    is_signaling(c.a) /\ is_quiet(c.b) /\ SignSet(c.a) = SignSet(c.b)
QuietThenSignaling(c) ==
    is_quiet(c.a) /\ is_signaling(c.b) /\ SignSet(c.a) = SignSet(c.b)

\* C8 as stated: of a signaling and a quiet NaN of the same sign, the
\* signaling one sorts below the quiet one when both are negative and above
\* it when both are positive.
SignalingOutsideQuiet ==
    \A c \in orders :
        /\ SignalingThenQuiet(c) => c.r = Ok(SignSet(c.a))
        /\ QuietThenSignaling(c) => c.r = Ok(~SignSet(c.a))

\* C8, amended: of a signaling and a quiet NaN of the same sign, the
\* signaling one sorts above the quiet one when both are negative
\* (total_order(q, s) is true, total_order(s, q) is false) and below it when
\* both are positive (total_order(s, q) is true, total_order(q, s) is
\* false): the signaling NaN is the nearer to zero.
SignalingInsideQuiet ==
    \A c \in orders :
        /\ SignalingThenQuiet(c) => c.r = Ok(~SignSet(c.a))
        /\ QuietThenSignaling(c) => c.r = Ok(SignSet(c.a))

\* a negative signaling and a negative quiet NaN have been compared both
\* ways round
SignalingQuietWitness ==
    \E c, d \in orders :
        /\ SignalingThenQuiet(c) /\ SignSet(c.a)
        /\ d.a = c.b /\ d.b = c.a
        /\ c.r = Ok(FALSE) /\ d.r = Ok(TRUE)

\* C9: on two non-NaN operands of different classes total_order returns
\* whether the class of the first comes before the class of the second in
\* the fixed rank; on a NaN and a non-NaN it returns the NaN's sign bit
\* when the NaN is first and its complement when the NaN is second.
CrossClassRank ==
    \A c \in orders :
        LET ca == class(c.a).v
            cb == class(c.b).v
        IN  /\ (ca \notin NaNClasses /\ cb \notin NaNClasses /\ ca # cb)
               => c.r = Ok(RankOf(ca) < RankOf(cb))
            /\ (ca \in NaNClasses /\ cb \notin NaNClasses)
               => c.r = Ok(SignSet(c.a))
            /\ (ca \notin NaNClasses /\ cb \in NaNClasses)
               => c.r = Ok(~SignSet(c.b))

\* negative zero has been compared with positive zero, both ways round
CrossClassWitness ==
    \E c, d \in orders :
        /\ c.a = U32(\h8000, \h0000) /\ c.b = U32(\h0000, \h0000)
        /\ d.a = c.b /\ d.b = c.a
        /\ c.r = Ok(TRUE) /\ d.r = Ok(FALSE)

\* C10: negation mirrors the order: the call on (a, b) and the call on
\* (negate(b), negate(a)) have the same outcome, the same boolean or the
\* same panic.
NegationMirrors ==
    \A c, d \in orders :
        (d.a = negate(c.b) /\ d.b = negate(c.a)) => d.r = c.r

\* two negative normal numbers whose comparison panics have been compared,
\* and so have their negations, swapped, with the same panic
NegationWitness ==
    /\ overflow_checks
    /\ \E c, d \in orders :
           /\ d.a = negate(c.b) /\ d.b = negate(c.a) /\ c # d
           /\ class(c.a).v = "NegativeNormal"
           /\ class(c.b).v = "NegativeNormal"
           /\ c.r = Panic /\ d.r = Panic

====
